---- MODULE Spec2Model ----
(***************************************************************************)
(* Signature verification cache of txscript: SigCache (sigcache.go, keys   *)
(* are 32-byte arrays) and StringSigCache (sigcache_string.go, keys are    *)
(* strings), each a map guarded by an embedded sync.RWMutex, with a        *)
(* randomized eviction on Add.  Goroutines call Add and Exists             *)
(* concurrently on one store; every step below is one statement (or one    *)
(* lock-protected block) of those two methods.                             *)
(***************************************************************************)
EXTENDS Integers, FiniteSets, Sequences, TLC

\* ---------------------------------------------------------------- bounds
NumProcs == 2        \* goroutines calling into the store
NumKeys == 3         \* size of the modelled hash space (keys 0..NumKeys-1)
MaxCap == 2          \* largest maxEntries a store is constructed with
NumNonces == 1       \* nonces a store may be constructed with

\* ------------------------------------------------------ program constants
\* var zeroEntry sigKey: the all-zero key, the scan's "nothing found yet"
\* value in SigCache.Add.  It is also a value the hash may produce.
zeroEntry == 0
\* var foundEntry string: the empty string, the scan's "nothing found yet"
\* value in StringSigCache.Add.  No 32-byte key equals it.
emptyString == -1

Keys == 0..(NumKeys - 1)
\* (sigHash, sig, pubKey) triples, as many as there are keys
Triples == 0..(NumKeys - 1)
Nonces == 1..NumNonces
Variants == {"array", "string"}

VARIABLES
    variant,      \* which of the two types the store is
    validSigs,    \* s.validSigs: the set of resident keys
    maxEntries,   \* s.maxEntries
    cacheNonce,   \* s.cacheNonce
    wOwner,       \* RWMutex: the goroutine inside Lock()..Unlock() (a set
                  \* of at most one)
    wHeld,        \* RWMutex: Lock() has returned to wOwner (readers drained)
    readers,      \* RWMutex: goroutines between RLock() and RUnlock()
    pc,           \* per goroutine: position in Add / Exists
    arg,          \* per goroutine: the triple of the call in progress; it
                  \* is the caller's data, fixed here when the call passes
                  \* its lock, before which nothing depends on it
    ok,           \* per goroutine: the value Exists read (returned at RUnlock)
    pre,          \* history: validSigs when the current Add took the lock
    path,         \* history: the way the current Add goes through its body
    scan,         \* history: the random hash and the iteration order of the
                  \* current Add's eviction (a set of at most one record)
    procs,        \* the goroutines using the store (fixed)
    ctor,         \* the constructor: whether it has run and what it returned
                  \* (state "no", "cache" or "nil"; err), what it was asked
                  \* for (req) and whether its rand.Read succeeded (randOK)
    other,        \* a second store instance, used by one caller of its own:
                  \* its validSigs, maxEntries, cacheNonce, its lock ("free",
                  \* "read", "write"), the triple of its call in progress
                  \* and the value its last Exists returned
    watch,        \* history: the triple whose calls are followed (fixed; a
                  \* set of at most one)
    added,        \* history: some Add was called with the triple `watch`
    lastAdd       \* history: how the Adds of `watch` that returned since its
                  \*          key was last evicted went: "none" (there was
                  \*          none), "abandoned" (none of them reached the
                  \*          insertion), "inserted" (one of them did)

vars == <<variant, validSigs, maxEntries, cacheNonce, wOwner, wHeld, readers,
          pc, arg, ok, pre, path, scan, procs, ctor, other, watch, added, lastAdd>>

store == <<variant, validSigs, maxEntries, cacheNonce, procs, ctor, other>>
hist == <<pre, path, scan, watch, added, lastAdd>>

\* ------------------------------------------------------- key derivation
\* SHA-256(nonce || sigHash || sig || pubKey): for a fixed nonce a different
\* triple gives a different key (collision resistance), and the key depends
\* on the nonce.  Some triple hashes to the all-zero key.
newSigKeyCollide(nonce, t) == (t + nonce) % (NumKeys - 1)
newSigKey(nonce, t) == (t + nonce) % NumKeys

\* ------------------------------------------------------------- eviction
\* The value foundEntry starts with.
Sentinel(v) == IF v = "array" THEN zeroEntry ELSE emptyString

\* bytes.Compare(sigEntry, randHashBytes) > 0 on fixed-width byte strings
GreaterThan(sigEntry, r) == sigEntry > r

\* The for-range loop over validSigs, visiting the keys in the order `order`
\* from index i on, with random hash r.
RECURSIVE ScanFrom(_, _, _, _, _)
ScanFrom(order, i, r, foundEntry, v) ==
    IF i > Len(order) THEN foundEntry
    ELSE LET sigEntry == order[i]
             f1 == IF foundEntry = Sentinel(v) THEN sigEntry ELSE foundEntry
         IN  IF GreaterThan(sigEntry, r) THEN sigEntry
             ELSE ScanFrom(order, i + 1, r, f1, v)

\* (a scan without the first-entry fall back)
FoundEntryNoFallback(order, r, v) ==
    IF \E i \in DOMAIN order : GreaterThan(order[i], r)
      THEN ScanFrom(order, 1, r, Sentinel(v), v)
      ELSE Sentinel(v)
FoundEntry(order, r, v) == ScanFrom(order, 1, r, Sentinel(v), v)

\* The orders in which a range over the map may visit its keys: any.
Orders(S) == {o \in [1..Cardinality(S) -> S] : \A k \in S : \E i \in DOMAIN o : o[i] = k}

\* s.maxEntries <= 0
DisabledNever(max) == max < 0
Disabled(max) == max <= 0

\* uint(len(s.validSigs)+1) > s.maxEntries
NeedsEvictionOff(S, max) == Cardinality(S) > max
NeedsEvictionEarly(S, max) == Cardinality(S) + 1 >= max
NeedsEviction(S, max) == Cardinality(S) + 1 > max

\* ----------------------------------------------------------- construction
\* What NewSigCache / NewStringSigCache return after rand.Read: the cache and
\* no error, or nil and the error of rand.Read.
ReturnedIgnoringErr(randOK) == [state |-> "cache", err |-> FALSE]
Returned(randOK) ==
    IF randOK THEN [state |-> "cache", err |-> FALSE]
              ELSE [state |-> "nil", err |-> TRUE]

\* The record of a constructor call for m entries.
Constructed(m, randOK) ==
    [state |-> Returned(randOK).state, err |-> Returned(randOK).err,
     req |-> m, randOK |-> randOK]

\* NewSigCache(m): the struct gets an empty map and maxEntries = m, then
\* rand.Read fills cacheNonce with n, or fails and leaves it zero.
NewCache(m, n, randOK) ==
    /\ ctor.state = "no"
    /\ validSigs' = {}
    /\ maxEntries' = m
    /\ cacheNonce' = IF randOK THEN n ELSE 0
    /\ ctor' = Constructed(m, randOK)
    /\ UNCHANGED <<variant, procs, other, wOwner, wHeld, readers, pc, arg, ok, hist>>

\* ------------------------------------------------------------------ Init
\* The lock free, no call in progress, nothing in the history.
InitRest ==
    /\ wOwner = {}
    /\ wHeld = FALSE
    /\ readers = {}
    /\ pre = {}
    /\ path = "none"
    /\ scan = {}
    /\ added = FALSE
    /\ lastAdd = "none"

\* A store as its constructor returns it, for m entries and with nonce n.
Fresh(m, n) ==
    [validSigs |-> {}, maxEntries |-> m, cacheNonce |-> n,
     lock |-> "free", arg |-> 0, ok |-> FALSE]

\* Before the constructor has run: no store yet.
NoStore ==
    /\ variant \in Variants
    /\ validSigs = {}
    /\ maxEntries = 0
    /\ cacheNonce = 0
    /\ ctor = [state |-> "no", err |-> FALSE, req |-> 0, randOK |-> TRUE]
    /\ InitRest
    /\ other = Fresh(0, 0)
    /\ watch = {}

\* The state NewSigCache / NewStringSigCache return: an empty map, the
\* requested maxEntries, a random nonce, the lock free.
InitFirst ==
    /\ variant \in Variants
    /\ validSigs = {}
    /\ maxEntries \in 0..MaxCap
    /\ cacheNonce \in Nonces
    /\ ctor = Constructed(maxEntries, TRUE)
    /\ InitRest

\* One store only: the second instance is never used.
InitStore == InitFirst /\ other = Fresh(0, 0)

\* n goroutines, none of them inside a call.
InitProcs(n) ==
    /\ procs = 1..n
    /\ pc = [p \in 1..n |-> "idle"]
    /\ arg = [p \in 1..n |-> 0]
    /\ ok = [p \in 1..n |-> FALSE]

Init == InitStore /\ InitProcs(NumProcs) /\ \E t \in Triples : watch = {t}

\* Two stores, constructed apart: the first with its goroutines, the second
\* with one caller of its own.
InitTwo ==
    /\ InitFirst
    /\ \E m \in 0..MaxCap, n \in Nonces : other = Fresh(m, n)
    /\ InitProcs(NumProcs)
    /\ watch = {}

\* The goroutines are there before the store is constructed.
InitNew == NoStore /\ InitProcs(NumProcs)

\* One goroutine more (a reader inside, a writer waiting for it, and a
\* second reader arriving), and no triple followed.
InitLock == InitStore /\ InitProcs(NumProcs + 1) /\ watch = {}

\* ---------------------------------------------------------------- RWMutex
\* RLock returns at once unless a writer is inside Lock()..Unlock(): a writer
\* that has called Lock and waits for the readers to leave already holds new
\* readers back.
CanRLockExclusive == wOwner = {} /\ readers = {}
CanRLockAlways == TRUE
CanRLock == wOwner = {}

\* Lock is entered by one writer at a time.
CanLock == wOwner = {}

\* ----------------------------------------------------------------- Exists
ExistsCall(p) ==
    /\ pc[p] = "idle"
    /\ pc' = [pc EXCEPT ![p] = "rlock"]
    /\ UNCHANGED <<store, wOwner, wHeld, readers, arg, ok, hist>>

\* (a lookup that finds every key)
LookupAlways(S, key) == TRUE
\* _, ok := s.validSigs[key]
Lookup(S, key) == key \in S

\* s.RLock(); _, ok := s.validSigs[key].  The read is taken with the lock:
\* the map cannot change while the read lock is held.
ExistsRLock(p, t) ==
    /\ pc[p] = "rlock"
    /\ CanRLock
    /\ readers' = readers \cup {p}
    /\ arg' = [arg EXCEPT ![p] = t]
    /\ ok' = [ok EXCEPT ![p] = Lookup(validSigs, newSigKey(cacheNonce, t))]
    /\ pc' = [pc EXCEPT ![p] = "runlock"]
    /\ UNCHANGED <<store, wOwner, wHeld, hist>>

\* s.RUnlock(); return ok
ExistsRUnlock(p) ==
    /\ pc[p] = "runlock"
    /\ readers' = readers \ {p}
    /\ pc' = [pc EXCEPT ![p] = "idle"]
    /\ arg' = [arg EXCEPT ![p] = 0]
    /\ ok' = [ok EXCEPT ![p] = FALSE]
    /\ UNCHANGED <<store, wOwner, wHeld, hist>>

\* -------------------------------------------------------------------- Add
AddCall(p) ==
    /\ pc[p] = "idle"
    /\ pc' = [pc EXCEPT ![p] = "lock"]
    /\ UNCHANGED <<store, wOwner, wHeld, readers, arg, ok, hist>>

\* Lock() has returned to Add(t): the critical section begins.
Enter(p, t) ==
    /\ wHeld' = TRUE
    /\ pc' = [pc EXCEPT ![p] = "check"]
    /\ arg' = [arg EXCEPT ![p] = t]
    /\ pre' = validSigs
    /\ added' = (added \/ t \in watch)

\* s.Lock(), first half: become the one writer; with no reader inside the
\* lock is held at once.
AddLock(p, t) ==
    /\ pc[p] = "lock"
    /\ CanLock
    /\ wOwner' = {p}
    /\ IF readers = {}
         THEN Enter(p, t)
         ELSE /\ pc' = [pc EXCEPT ![p] = "lockwait"]
              /\ UNCHANGED <<wHeld, arg, pre, added>>
    /\ UNCHANGED <<store, readers, ok, path, watch, scan, lastAdd>>

\* s.Lock(), second half: the readers that were inside have left.
AddLockAcquire(p, t) ==
    /\ pc[p] = "lockwait"
    /\ wOwner = {p}
    /\ readers = {}
    /\ Enter(p, t)
    /\ UNCHANGED <<store, wOwner, readers, ok, path, watch, scan, lastAdd>>

\* if s.maxEntries <= 0 { return }; if uint(len(s.validSigs)+1) > s.maxEntries
AddCheck(p) ==
    /\ pc[p] = "check"
    /\ IF Disabled(maxEntries)
         THEN /\ pc' = [pc EXCEPT ![p] = "unlock"]
              /\ path' = "disabled"
         ELSE IF NeedsEviction(validSigs, maxEntries)
         THEN /\ pc' = [pc EXCEPT ![p] = "rand"]
              /\ path' = path
         ELSE /\ pc' = [pc EXCEPT ![p] = "insert"]
              /\ path' = path
    /\ UNCHANGED <<store, wOwner, wHeld, readers, arg, ok, pre, watch, scan, added, lastAdd>>

\* delete(s.validSigs, foundEntry)
Delete(S, foundEntry) == S \ {foundEntry}

\* (a failed read that evicts the smallest key all the same)
AddRandFailEvict(p) ==
    /\ pc[p] = "rand"
    /\ pc' = [pc EXCEPT ![p] = "unlock"]
    /\ path' = "randfail"
    /\ validSigs' = {k \in validSigs : \E j \in validSigs : j < k}
    /\ UNCHANGED <<variant, maxEntries, cacheNonce, procs, ctor, other, wOwner, wHeld, readers,
                   arg, ok, pre, watch, scan, added, lastAdd>>
\* rand.Read(randHashBytes) fails: return
AddRandFail(p) ==
    /\ pc[p] = "rand"
    /\ pc' = [pc EXCEPT ![p] = "unlock"]
    /\ path' = "randfail"
    /\ UNCHANGED <<store, wOwner, wHeld, readers, arg, ok, pre, watch, scan, added, lastAdd>>

\* rand.Read succeeds with r; the range loop visits the keys in `order`;
\* the entry it settles on is deleted.
AddEvict(p, r, order) ==
    /\ pc[p] = "rand"
    /\ LET foundEntry == FoundEntry(order, r, variant)
       IN  /\ validSigs' = Delete(validSigs, foundEntry)
           /\ lastAdd' = IF \E t \in watch :
                                 /\ newSigKey(cacheNonce, t) \in validSigs
                                 /\ newSigKey(cacheNonce, t) \notin validSigs'
                            THEN "none" ELSE lastAdd
    /\ pc' = [pc EXCEPT ![p] = "insert"]
    /\ path' = "evicted"
    /\ scan' = {[r |-> r, order |-> order]}
    /\ UNCHANGED <<variant, maxEntries, cacheNonce, procs, ctor, other, wOwner, wHeld, readers,
                   arg, ok, pre, watch, added>>

\* (an insertion that is lost)
InsertDropped(S, key) == S
\* s.validSigs[key] = struct{}{}
Insert(S, key) == S \cup {key}

\* (an insertion that also clears the nonce)
AddInsertResalt(p) ==
    /\ pc[p] = "insert"
    /\ validSigs' = Insert(validSigs, newSigKey(cacheNonce, arg[p]))
    /\ cacheNonce' = 0
    /\ pc' = [pc EXCEPT ![p] = "unlock"]
    /\ path' = IF path = "evicted" THEN "evictinsert" ELSE "inserted"
    /\ UNCHANGED <<variant, maxEntries, procs, ctor, other, wOwner, wHeld, readers,
                   arg, ok, pre, watch, scan, added, lastAdd>>
AddInsert(p) ==
    /\ pc[p] = "insert"
    /\ validSigs' = Insert(validSigs, newSigKey(cacheNonce, arg[p]))
    /\ pc' = [pc EXCEPT ![p] = "unlock"]
    /\ path' = IF path = "evicted" THEN "evictinsert" ELSE "inserted"
    /\ UNCHANGED <<variant, maxEntries, cacheNonce, procs, ctor, other, wOwner, wHeld, readers,
                   arg, ok, pre, watch, scan, added, lastAdd>>

\* (a return that leaves the write lock held)
AddUnlockKeep(p) ==
    /\ pc[p] = "unlock"
    /\ pc' = [pc EXCEPT ![p] = "idle"]
    /\ arg' = [arg EXCEPT ![p] = 0]
    /\ pre' = {}
    /\ path' = "none"
    /\ scan' = {}
    /\ UNCHANGED <<store, wOwner, wHeld, readers, ok, watch, added, lastAdd>>
\* defer s.Unlock(); Add returns (it has no result)
AddUnlock(p) ==
    /\ pc[p] = "unlock"
    /\ wOwner' = {}
    /\ wHeld' = FALSE
    /\ pc' = [pc EXCEPT ![p] = "idle"]
    /\ lastAdd' = IF arg[p] \notin watch \/ lastAdd = "inserted" THEN lastAdd
                  ELSE IF path \in {"inserted", "evictinsert"} THEN "inserted"
                  ELSE "abandoned"
    /\ arg' = [arg EXCEPT ![p] = 0]
    /\ pre' = {}
    /\ path' = "none"
    /\ scan' = {}
    /\ UNCHANGED <<store, readers, ok, watch, added>>

\* ------------------------------------------------------- second instance
\* The map an Add of triple t leaves, from map S of a store with capacity
\* max and nonce n: the body of Add between Lock and Unlock, with the
\* outcome of rand.Read (randOK, r) and the iteration order of the scan.
AddBody(S, max, n, t, randOK, r, order, v) ==
    IF Disabled(max) THEN S
    ELSE IF NeedsEviction(S, max)
           THEN IF randOK
                  THEN Insert(Delete(S, FoundEntry(order, r, v)), newSigKey(n, t))
                  ELSE S
           ELSE Insert(S, newSigKey(n, t))

\* s.Lock() of an Add(t) on the second instance
OtherAddLock(t) ==
    /\ other.lock = "free"
    /\ other' = [other EXCEPT !.lock = "write", !.arg = t]
    /\ UNCHANGED <<variant, validSigs, maxEntries, cacheNonce, procs, ctor,
                   wOwner, wHeld, readers, pc, arg, ok, hist>>

\* (an Add on the second instance that inserts into the first one's map too)
OtherAddShared(randOK, r, order) ==
    /\ other.lock = "write"
    /\ other' = [other EXCEPT
                   !.validSigs = AddBody(@, other.maxEntries, other.cacheNonce,
                                         other.arg, randOK, r, order, variant),
                   !.lock = "free", !.arg = 0]
    /\ validSigs' = Insert(validSigs, newSigKey(other.cacheNonce, other.arg))
    /\ UNCHANGED <<variant, maxEntries, cacheNonce, procs, ctor,
                   wOwner, wHeld, readers, pc, arg, ok, hist>>
\* the body of that Add, and its Unlock
OtherAdd(randOK, r, order) ==
    /\ other.lock = "write"
    /\ other' = [other EXCEPT
                   !.validSigs = AddBody(@, other.maxEntries, other.cacheNonce,
                                         other.arg, randOK, r, order, variant),
                   !.lock = "free", !.arg = 0]
    /\ UNCHANGED <<variant, validSigs, maxEntries, cacheNonce, procs, ctor,
                   wOwner, wHeld, readers, pc, arg, ok, hist>>

\* s.RLock() of an Exists(t) on the second instance
OtherExistsLock(t) ==
    /\ other.lock = "free"
    /\ other' = [other EXCEPT !.lock = "read", !.arg = t]
    /\ UNCHANGED <<variant, validSigs, maxEntries, cacheNonce, procs, ctor,
                   wOwner, wHeld, readers, pc, arg, ok, hist>>

\* the lookup of that Exists, its RUnlock and its return
OtherExists ==
    /\ other.lock = "read"
    /\ other' = [other EXCEPT
                   !.ok = Lookup(other.validSigs,
                                 newSigKey(other.cacheNonce, other.arg)),
                   !.lock = "free", !.arg = 0]
    /\ UNCHANGED <<variant, validSigs, maxEntries, cacheNonce, procs, ctor,
                   wOwner, wHeld, readers, pc, arg, ok, hist>>

\* ------------------------------------------------------------------- Next
Next ==
    \/ \E p \in procs : ExistsCall(p)
    \/ \E p \in procs, t \in Triples : ExistsRLock(p, t)
    \/ \E p \in procs : ExistsRUnlock(p)
    \/ \E p \in procs : AddCall(p)
    \/ \E p \in procs, t \in Triples : AddLock(p, t)
    \/ \E p \in procs, t \in Triples : AddLockAcquire(p, t)
    \/ \E p \in procs : AddCheck(p)
    \/ \E p \in procs : AddRandFail(p)
    \/ \E p \in procs, r \in Keys, order \in Orders(validSigs) : AddEvict(p, r, order)
    \/ \E p \in procs : AddInsert(p)
    \/ \E p \in procs : AddUnlock(p)

Spec == Init /\ [][Next]_vars

SpecLock == InitLock /\ [][Next]_vars

\* The constructor first; Add and Exists only on a cache it returned.
NextNew ==
    \/ \E m \in 0..MaxCap, n \in Nonces, randOK \in BOOLEAN : NewCache(m, n, randOK)
    \/ ctor.state = "cache" /\ Next

\* Two instances: the steps of the first, and those of the second.
NextTwo ==
    \/ Next
    \/ \E t \in Triples : OtherAddLock(t)
    \/ \E randOK \in BOOLEAN, r \in Keys, order \in Orders(other.validSigs) :
          OtherAdd(randOK, r, order)
    \/ \E t \in Triples : OtherExistsLock(t)
    \/ OtherExists

SpecTwo == InitTwo /\ [][NextTwo]_vars

SpecNew == InitNew /\ [][NextNew]_vars

\* Scheduling.  A goroutine inside a call keeps running: each of its steps
\* that stays possible is taken.  RLock and Lock are granted to whoever keeps
\* asking: Unlock hands the lock to the readers that waited for it before
\* the next writer gets it, and waiting writers are served by the mutex
\* inside the RWMutex.  Nothing makes a caller start a call.
InitFair == InitStore /\ InitProcs(NumProcs) /\ watch = {}

\* The steps of goroutine p that wait for nothing.
Run(p) ==
    \/ ExistsRUnlock(p)
    \/ \E t \in Triples : AddLockAcquire(p, t)
    \/ AddCheck(p)
    \/ AddRandFail(p)
    \/ \E r \in Keys, order \in Orders(validSigs) : AddEvict(p, r, order)
    \/ AddInsert(p)
    \/ AddUnlock(p)

Fairness ==
    \A p \in 1..NumProcs :
        /\ WF_vars(Run(p))
        /\ SF_vars(\E t \in Triples : ExistsRLock(p, t))
        /\ SF_vars(\E t \in Triples : AddLock(p, t))

SpecFair == InitFair /\ [][Next]_vars /\ Fairness


\* =================================================================== claims
\* The key of the call goroutine p is in.
KeyOf(p) == newSigKey(cacheNonce, arg[p])
\* The key of the followed triple is resident.
WatchResident == \E t \in watch : newSigKey(cacheNonce, t) \in validSigs
\* Goroutine p is inside Add's critical section.
InCritical(p) == pc[p] \in {"check", "rand", "insert", "unlock"}
\* Goroutine p has finished the body of Add and is about to return.
AddDone(p) == pc[p] = "unlock"

\* C1: whenever no Add holds the write lock, validSigs holds at most
\* maxEntries keys.
C1_CapacityBound == (~wHeld) => Cardinality(validSigs) <= maxEntries

\* C1 witness: the lock is free, the store is full, and the key of the
\* followed triple was added and has been evicted again.
C1_Witness ==
    /\ wOwner = {} /\ maxEntries = MaxCap
    /\ Cardinality(validSigs) = maxEntries
    /\ added /\ lastAdd = "none" /\ ~WatchResident

\* C2: an Exists of a triple returns true only if Add was called with that
\* triple before.
C2_NoFalsePositives ==
    \A p \in procs :
        (pc[p] = "runlock" /\ arg[p] \in watch /\ ok[p]) => added

\* C2 witness: Exists reports a triple absent that Add was never called with,
\* after Adds of other triples have filled the store.
C2_Witness ==
    \E p \in procs :
        /\ pc[p] = "runlock" /\ arg[p] \in watch /\ ~ok[p] /\ ~added
        /\ maxEntries = MaxCap /\ Cardinality(validSigs) = maxEntries

\* C3 as claimed: an Exists(T) that takes the lock after an Add(T) has
\* returned, with no eviction of T's key since, returns true.
C3_InsertionObservableAnyAdd ==
    \A p \in procs :
        (pc[p] = "runlock" /\ arg[p] \in watch /\ lastAdd # "none") => ok[p]

\* C3 amended: an Exists(T) that takes the lock after an Add(T) that reached
\* its insertion has returned, with no eviction of T's key since, returns
\* true.
C3_InsertionObservable ==
    \A p \in procs :
        (pc[p] = "runlock" /\ arg[p] \in watch /\ lastAdd = "inserted") => ok[p]

\* C3 witness: such an Exists on a full store, after an Add(T) that evicted.
C3_Witness ==
    \E p \in procs :
        /\ pc[p] = "runlock" /\ arg[p] \in watch /\ lastAdd = "inserted"
        /\ maxEntries = MaxCap /\ Cardinality(validSigs) = maxEntries
        /\ \E q \in procs : pc[q] = "lock"

\* C4: an Add of a key that is not resident, on a store holding maxEntries
\* keys, whose random draw succeeds, leaves maxEntries keys: the new key,
\* and all the keys held before but one.
C4_EvictionFreesOneSlot ==
    \A p \in procs :
        (/\ AddDone(p) /\ path = "evictinsert"
         /\ KeyOf(p) \notin pre /\ Cardinality(pre) = maxEntries)
        => /\ Cardinality(validSigs) = maxEntries
           /\ KeyOf(p) \in validSigs
           /\ Cardinality(pre \ validSigs) = 1
           /\ validSigs \ pre = {KeyOf(p)}

\* C4 witness: such an Add on a store of the largest capacity, which held the
\* all-zero key.
C4_Witness ==
    \E p \in procs :
        /\ AddDone(p) /\ path = "evictinsert" /\ KeyOf(p) \notin pre
        /\ maxEntries = MaxCap /\ Cardinality(pre) = maxEntries
        /\ zeroEntry \in pre

\* C5 as claimed: an Add of a key that is resident leaves the set of resident
\* keys as it was.
C5_AddIdempotent ==
    \A p \in procs : (AddDone(p) /\ KeyOf(p) \in pre) => validSigs = pre

\* C6 as claimed: an Add on a store holding maxEntries keys leaves maxEntries
\* keys, an Add on a store holding fewer leaves as many or one more, and no
\* Add leaves fewer keys than it found.
C6_StoreStateMachine ==
    \A p \in procs :
        AddDone(p) =>
            /\ Cardinality(pre) = maxEntries
                 => Cardinality(validSigs) = maxEntries
            /\ Cardinality(pre) < maxEntries
                 => Cardinality(validSigs) \in
                       {Cardinality(pre), Cardinality(pre) + 1}
            /\ Cardinality(validSigs) >= Cardinality(pre)

\* C7: with maxEntries = 0 the store stays empty, no Add reaches the random
\* draw, the eviction or the insertion, and every Exists returns false.
C7_DisabledInert ==
    maxEntries = 0 =>
        /\ validSigs = {}
        /\ path \in {"none", "disabled"}
        /\ \A p \in procs :
              /\ pc[p] \notin {"rand", "insert"}
              /\ pc[p] = "runlock" => ~ok[p]

\* C7 witness: on a disabled store, an Exists of a triple after an Add of
\* that triple has returned.
C7_Witness ==
    /\ maxEntries = 0 /\ added /\ lastAdd = "abandoned"
    /\ \E p \in procs : pc[p] = "runlock" /\ arg[p] \in watch /\ ~ok[p]

\* C8: an Add whose random draw fails ran on a store holding maxEntries keys,
\* and when it returns the resident keys are those it found and the lock is
\* free.
C8_RandFailAbandons ==
    [][\A p \in procs :
          (pc[p] = "unlock" /\ path = "randfail" /\ pc'[p] = "idle")
          => /\ Cardinality(pre) = maxEntries
             /\ validSigs' = pre
             /\ wOwner' = {} /\ ~wHeld']_vars

\* C8 witness: an Add whose draw failed, about to return, its key not
\* resident.
C8_Witness ==
    \E p \in procs :
        /\ AddDone(p) /\ path = "randfail"
        /\ KeyOf(p) \notin validSigs /\ maxEntries = MaxCap

\* C9: at most one Add is inside its critical section, no Exists holds the
\* read lock meanwhile, and what an Exists has read is the membership of its
\* key in the map as it is (never that of a map between an eviction and the
\* insertion that follows it).
C9_MutualExclusion ==
    /\ Cardinality({p \in procs : InCritical(p)}) <= 1
    /\ \A p \in procs : InCritical(p) => (wOwner = {p} /\ wHeld /\ readers = {})
    /\ \A p \in procs :
          pc[p] = "runlock" => (p \in readers /\ ok[p] = (KeyOf(p) \in validSigs))

\* C9 witness: an Add between its eviction and its insertion, an Exists
\* waiting in RLock.
C9_Witness ==
    \E p, q \in procs :
        /\ pc[p] = "insert" /\ path = "evicted"
        /\ pc[q] = "rlock"

\* An Exists of goroutine p waits in RLock and cannot go on.
RLockBlocked(p) == pc[p] = "rlock" /\ ~ENABLED (\E t \in Triples : ExistsRLock(p, t))

\* C10 as claimed: an Exists is kept from going on only while an Add holds
\* the lock exclusively.
C10_BlockedOnlyByHolder ==
    \A p \in procs : RLockBlocked(p) => wHeld

\* C10 amended: an Exists waiting in RLock is kept from going on exactly
\* while an Add holds the lock or waits in Lock for it, however many Exists
\* calls hold the lock in shared mode.
C10_ReadersDoNotBlockReaders ==
    \A p \in procs : pc[p] = "rlock" => (RLockBlocked(p) <=> wOwner # {})

\* C10 witness: two Exists calls hold the lock in shared mode and a third can
\* take it.
C10_Witness ==
    /\ Cardinality(readers) >= NumProcs
    /\ \E p \in procs : pc[p] = "rlock" /\ ~RLockBlocked(p)

\* Goroutine p takes a step of Exists.
ExistsStep(p) ==
    \/ pc[p] = "idle" /\ pc'[p] = "rlock"
    \/ pc[p] = "rlock" /\ pc'[p] = "runlock"
    \/ pc[p] = "runlock" /\ pc'[p] = "idle"

\* C11: no step of an Exists changes the resident keys, maxEntries or the
\* nonce; what the Exists reads is whether the key derived from its triple
\* is resident; and when it returns it holds the lock no more.
C11_ExistsSideEffectFree ==
    [][\A p \in procs :
          ExistsStep(p) =>
              /\ validSigs' = validSigs
              /\ maxEntries' = maxEntries
              /\ cacheNonce' = cacheNonce
              /\ pc'[p] = "runlock" =>
                    /\ ok'[p] \in BOOLEAN
                    /\ ok'[p] = (newSigKey(cacheNonce, arg'[p]) \in validSigs)
              /\ pc'[p] = "idle" => (p \notin readers' /\ wOwner' = wOwner)]_vars

\* C11 witness: an Exists has read true on a full store while an Add waits
\* in Lock for it to leave.
C11_Witness ==
    \E p, q \in procs :
        /\ pc[p] = "runlock" /\ ok[p]
        /\ Cardinality(validSigs) = maxEntries
        /\ pc[q] = "lockwait"

\* C16: an Add that found fewer than maxEntries keys does not reach the
\* random draw, removes no key, and leaves its own key resident.
C16_NoEvictionBelowCapacity ==
    \A p \in procs :
        (InCritical(p) /\ Cardinality(pre) < maxEntries) =>
            /\ pc[p] # "rand"
            /\ path \in {"none", "inserted"}
            /\ pre \subseteq validSigs
            /\ AddDone(p) => (path = "inserted" /\ validSigs = pre \cup {KeyOf(p)})

\* C16 witness: such an Add, of a key that was not resident, on a store that
\* was not empty.
C16_Witness ==
    \E p \in procs :
        /\ AddDone(p) /\ Cardinality(pre) < maxEntries
        /\ pre # {} /\ KeyOf(p) \notin pre

\* C17: no step writes cacheNonce or maxEntries, so the key of a triple is
\* the same before and after every step (also a step taken while an Exists
\* has derived its key and has not yet taken the read lock).
C17_NonceAndCapacityImmutable ==
    [][/\ cacheNonce' = cacheNonce
       /\ maxEntries' = maxEntries
       /\ \A t \in Triples :
             newSigKey(cacheNonce', t) = newSigKey(cacheNonce, t)]_vars

\* C17 witness: an Add has inserted its key and holds the write lock while an
\* Exists that has been called waits for the read lock.
C17_Witness ==
    \E p, q \in procs :
        /\ pc[p] = "unlock" /\ path \in {"inserted", "evictinsert"}
        /\ pc[q] = "rlock"

\* The entry the scan is said to settle on: the first in the order whose key
\* is greater than r, and the first of the order when there is none.
FirstGreaterOrFirst(order, r) ==
    IF \E i \in DOMAIN order : order[i] > r
      THEN order[CHOOSE i \in DOMAIN order :
                    /\ order[i] > r
                    /\ \A j \in DOMAIN order : order[j] > r => i <= j]
      ELSE order[1]

\* An Add of goroutine p has evicted and not yet inserted.
Evicted(p) == pc[p] = "insert" /\ path = "evicted"

\* C14 as claimed: the entry an evicting Add removes is the first in the
\* iteration order whose key is greater than the random hash, and the first
\* of the order when no key is greater, whatever the keys.
C14_VictimSelection ==
    \A p \in procs :
        Evicted(p) =>
            \A s \in scan : pre \ validSigs = {FirstGreaterOrFirst(s.order, s.r)}

\* The map each variant is left with by an eviction from map S with the
\* order and random hash of s.
AfterEviction(S, s, v) == Delete(S, FoundEntry(s.order, s.r, v))

\* C18 as claimed: from the same map, with the same iteration order and the
\* same random hash, the eviction of a SigCache and that of a StringSigCache
\* leave the same keys, so that every Exists returns the same on both.
C18_VariantsEquivalent ==
    \A p \in procs :
        Evicted(p) =>
            \A s \in scan :
                /\ AfterEviction(pre, s, "array") = AfterEviction(pre, s, "string")
                /\ \A t \in Triples :
                      Lookup(AfterEviction(pre, s, "array"), newSigKey(cacheNonce, t))
                      = Lookup(AfterEviction(pre, s, "string"), newSigKey(cacheNonce, t))

\* No goroutine is inside a call.
AllIdle == \A p \in procs : pc[p] = "idle"
\* The lock is held by nobody.
LockFree == wOwner = {} /\ ~wHeld /\ readers = {}

\* C15: under the scheduling of SpecFair every Add and every Exists that was
\* called returns, and whenever no call is in progress the lock is free.
C15_OperationsComplete ==
    /\ \A p \in 1..NumProcs : (pc[p] # "idle") ~> (pc[p] = "idle")
    /\ [](AllIdle => LockFree)

\* C15 witness: an Add abandoned for want of a random hash is about to
\* return while another Add waits in Lock.
C15_Witness ==
    \E p, q \in procs :
        /\ pc[p] = "unlock" /\ path = "randfail"
        /\ pc[q] = "lock"

\* C12: the constructor returns an error exactly when its rand.Read failed,
\* and then no cache (no call can be made); otherwise it returns no error
\* and a cache with an empty map, the maxEntries asked for, a nonce drawn by
\* rand.Read and a free lock.
C12_ConstructionFailure ==
    /\ [][(ctor.state = "no" /\ ctor'.state # "no") =>
            IF ctor'.randOK
              THEN /\ ctor'.state = "cache" /\ ~ctor'.err
                   /\ validSigs' = {}
                   /\ maxEntries' = ctor'.req
                   /\ cacheNonce' \in Nonces
                   /\ LockFree'
              ELSE ctor'.state = "nil" /\ ctor'.err]_vars
    /\ [](ctor.state # "cache" => (AllIdle /\ validSigs = {}))
    /\ [](ctor.state = "cache" => (cacheNonce \in Nonces /\ maxEntries = ctor.req))

\* C12 witness: the constructor was asked for the largest capacity, its
\* rand.Read failed, and it has returned nil and an error.
C12_Witness ==
    ctor.state = "nil" /\ ctor.err /\ ~ctor.randOK /\ ctor.req = MaxCap

\* What makes up the first instance: its fields, its lock, and the values
\* its Exists calls have read.
firstInstance == <<validSigs, maxEntries, cacheNonce, wOwner, wHeld, readers, ok>>

\* C13: a step of an Add or Exists on the first instance leaves the second
\* instance (keys, maxEntries, nonce, lock, last result) as it is, a step on
\* the second leaves the first as it is, and what an Exists returns on
\* either is the membership of its key in that instance's own map.
C13_InstanceIndependence ==
    /\ [][/\ pc' # pc => other' = other
          /\ other' # other =>
                /\ UNCHANGED firstInstance
                /\ other'.maxEntries = other.maxEntries
                /\ other'.cacheNonce = other.cacheNonce
                /\ other.lock = "read" =>
                      /\ other'.validSigs = other.validSigs
                      /\ other'.ok = (newSigKey(other.cacheNonce, other.arg)
                                        \in other.validSigs)]_vars
    /\ [](\A p \in procs :
            pc[p] = "runlock" => ok[p] = (KeyOf(p) \in validSigs))

\* C13 witness: both instances are full, they hold different keys, and each
\* has a call in progress.
C13_Witness ==
    /\ maxEntries = MaxCap /\ Cardinality(validSigs) = maxEntries
    /\ other.maxEntries >= 1
    /\ Cardinality(other.validSigs) = other.maxEntries
    /\ other.validSigs # validSigs
    /\ other.lock = "write"
    /\ \E p \in procs : pc[p] = "runlock"
====
